---- MODULE Spec2Model ----
(***************************************************************************)
(* A model of tkmaxx_gant_watcher.py: the paginated crawl of one brand     *)
(* listing, the extraction of products from a page, the diff against the   *)
(* persisted set of seen identifiers, the notification and the state file. *)
(*                                                                         *)
(* One run of main() is a sequence of steps, split at the points where the *)
(* program talks to the outside world: one HTTP attempt, the SMTP          *)
(* delivery, the write of the state file.  Everything main() does between  *)
(* two such points is part of one action.                                  *)
(*                                                                         *)
(* Not modelled: I/O failures while the state file is being written (disk  *)
(* full, no write permission) and edits of the state file by anyone but    *)
(* the program.                                                            *)
(***************************************************************************)
EXTENDS Naturals, Integers, Sequences, FiniteSets, TLC

(***************************************************************************)
(* Bounds of the model.                                                    *)
(***************************************************************************)
\* Number of runs of main() a behaviour holds.
MaxRuns == 3
\* Longest product list handed to diff_new_items by DiffSpec.
MaxLen == 3
\* Most cards on a page handed to products_from_listing by ExtractSpec.
MaxCards == 2

\* The fetched URLs a run keeps track of (crawls of cyclic sites go on).
MaxLog == 4

(***************************************************************************)
(* Strings and URLs.                                                       *)
(***************************************************************************)
\* The identifiers of the model, in Python's string order (sorted()).
IdOrder == <<" ", "A", "B", "C">>

Rank(s) == CHOOSE i \in 1..Len(IdOrder) : IdOrder[i] = s

Range(s) == {s[i] : i \in 1..Len(s)}

\* str.strip() on the strings of the model.
Strip(s) ==
    IF s = " " THEN ""
    ELSE IF s = " C" THEN "C"
    ELSE s

\* A URL is <<network location, path>>; the empty string is NoUrl and a
\* relative reference has an empty network location.
NoUrl == <<"", "">>

\* base in crawl_brand: scheme://netloc of BRAND_URL.
Base == "tkmaxx"

BRAND_URL == <<Base, "gant">>

sanitize_url(url, base) ==
    IF url = NoUrl THEN NoUrl
    ELSE IF url[1] # "" THEN url
    ELSE <<base, url[2]>>

(***************************************************************************)
(* State file: load_state / save_state.                                    *)
(*                                                                         *)
(* A file is [kind, ids]:                                                  *)
(*   absent      no file at the path                                       *)
(*   unreadable  the path exists and open() raises                         *)
(*   notjson     the content is not JSON                                   *)
(*   notobject   JSON, not an object (here: the array ids)                 *)
(*   nofield     an object without "seen_ids" (ids under another key)      *)
(*   scalar      an object whose "seen_ids" is null or a number            *)
(*   badlist     "seen_ids" is an array holding ids and a nested array     *)
(*   list        "seen_ids" is the array ids of strings                    *)
(***************************************************************************)
File(kind, ids) == [kind |-> kind, ids |-> ids]

\* sorted(ids)
RECURSIVE Sorted(_)
Sorted(S) ==
    IF S = {} THEN <<>>
    ELSE LET m == CHOOSE x \in S : \A y \in S : Rank(x) <= Rank(y)
         IN  <<m>> \o Sorted(S \ {m})

\* The body of load_state's try block: the exception it raises, or the set.
load_state_try(f) ==
    CASE f.kind = "unreadable" -> [exc |-> "OSError", val |-> {}]
      [] f.kind = "notjson"    -> [exc |-> "JSONDecodeError", val |-> {}]
      [] f.kind = "notobject"  -> [exc |-> "AttributeError", val |-> {}]
      [] f.kind = "nofield"    -> [exc |-> "none", val |-> {}]
      [] f.kind = "scalar"     -> [exc |-> "TypeError", val |-> {}]
      [] f.kind = "badlist"    -> [exc |-> "TypeError", val |-> {}]
      [] OTHER                 -> [exc |-> "none", val |-> Range(f.ids)]

\* Faulty variant: an except clause for I/O and JSON errors only.
load_state_catches_narrow(e) == e \in {"OSError", "JSONDecodeError"}

\* The exceptions "except Exception" catches: all of them.
load_state_catches(e) == TRUE

load_state(f) ==
    IF f.kind = "absent" THEN [exc |-> "none", val |-> {}]
    ELSE LET r == load_state_try(f)
         IN  IF r.exc # "none" /\ load_state_catches(r.exc)
             THEN [exc |-> "none", val |-> {}]
             ELSE r

save_state(ids) == File("list", Sorted(ids))

(***************************************************************************)
(* Extractor: products_from_listing, extract_product_ids,                  *)
(* extract_product_titles.                                                 *)
(*                                                                         *)
(* A card is what the code reads of one selected element:                  *)
(*   attrs    the values of data-productid, data-sku, data-itemid, data-id *)
(*            ("" when absent)                                             *)
(*   rx       the first match of each PID_PATTERN in the card's markup     *)
(*            ("" when it does not match)                                  *)
(*   has_a, href, a_title, a_text   the first <a href>                     *)
(*   title_el the text of the title-like descendant                        *)
(* A page is its cards, the matches of the patterns over the whole body,   *)
(* and its "next" markers.                                                 *)
(***************************************************************************)
Product(pid, url, title) == [pid |-> pid, url |-> url, title |-> title]

\* pid = card.get(attr) or pid, over the four attributes in order.
card_attr_pid(card) ==
    LET step(pid, v) == IF v # "" THEN v ELSE pid
    IN  step(step(step(step("", card.attrs[1]), card.attrs[2]),
                  card.attrs[3]), card.attrs[4])

\* The first PID_PATTERN that matches the card's markup.
card_regex_pid(card) ==
    IF card.rx[1] # "" THEN card.rx[1]
    ELSE IF card.rx[2] # "" THEN card.rx[2]
    ELSE IF card.rx[3] # "" THEN card.rx[3]
    ELSE card.rx[4]

card_pid(card) ==
    IF card_attr_pid(card) # "" THEN card_attr_pid(card)
    ELSE card_regex_pid(card)

card_href(card, base) ==
    IF card.has_a THEN sanitize_url(card.href, base) ELSE NoUrl

card_title(card) ==
    IF card.has_a /\ card.a_title # "" THEN Strip(card.a_title)
    ELSE IF card.has_a /\ card.a_text # "" THEN Strip(card.a_text)
    ELSE card.title_el

RECURSIVE cards_loop(_, _, _, _, _)
\* Faulty variant: a later card with a known pid replaces the earlier one.
cards_loop_last_wins(cards, base, i, seen_ids, products) ==
    IF i > Len(cards) THEN products
    ELSE LET pid == card_pid(cards[i])
             p == Product(pid, card_href(cards[i], base), card_title(cards[i]))
         IN  IF pid # "" /\ pid \notin seen_ids
             THEN cards_loop(cards, base, i + 1, seen_ids \cup {pid},
                             Append(products, p))
             ELSE IF pid # ""
             THEN cards_loop(cards, base, i + 1, seen_ids,
                             [k \in 1..Len(products) |->
                                 IF products[k].pid = pid THEN p ELSE products[k]])
             ELSE cards_loop(cards, base, i + 1, seen_ids, products)

\* The loop over the cards, from card i on.
cards_loop(cards, base, i, seen_ids, products) ==
    IF i > Len(cards) THEN products
    ELSE LET pid == card_pid(cards[i])
             p == Product(pid, card_href(cards[i], base), card_title(cards[i]))
         IN  IF pid # "" /\ pid \notin seen_ids
             THEN cards_loop(cards, base, i + 1, seen_ids \cup {pid},
                             Append(products, p))
             ELSE cards_loop(cards, base, i + 1, seen_ids, products)

extract_product_ids(page) ==
    {Strip(i) : i \in {j \in page.body_ids : Strip(j) # ""}}

extract_product_titles(page) == [t \in page.body_titles |-> t]

\* The iteration orders of a set: Python fixes none.
Orders(S) ==
    {s \in [1..Cardinality(S) -> S] : \A x \in S : \E i \in DOMAIN s : s[i] = x}

\* order is the order in which "for pid in ids" visits the set ids.
products_from_listing(page, base, order) ==
    LET products == cards_loop(page.cards, base, 1, {}, <<>>)
        titles_map == extract_product_titles(page)
    IN  IF products = <<>>
        THEN [k \in 1..Len(order) |->
                 Product(order[k], NoUrl,
                         IF order[k] \in DOMAIN titles_map
                         THEN titles_map[order[k]] ELSE "")]
        ELSE products

(***************************************************************************)
(* Paginator: find_next_page.                                              *)
(***************************************************************************)
RECURSIVE first_href(_, _)
first_href(cands, i) ==
    IF i > Len(cands) THEN NoUrl
    ELSE IF cands[i] # NoUrl THEN cands[i]
    ELSE first_href(cands, i + 1)

\* Faulty variant: the listing URL is returned whatever the page holds.
find_next_page_stuck(page, base) == BRAND_URL

find_next_page(page, base) ==
    IF page.link_next # NoUrl THEN sanitize_url(page.link_next, base)
    ELSE sanitize_url(first_href(page.a_next, 1), base)

(***************************************************************************)
(* Fetcher: the retry decorator of fetch.                                  *)
(***************************************************************************)
\* stop_after_attempt(3)
MaxAttempts == 3

\* Faulty variant: one attempt too many.
retry_stops_late(n) == n > MaxAttempts

\* After the n-th attempt has failed tenacity stops when n has reached the
\* limit, and raises RetryError.
retry_stops(n) == n >= MaxAttempts

(***************************************************************************)
(* Crawler: the accumulation of crawl_brand.                               *)
(***************************************************************************)
\* Faulty variant: a pid the dict holds keeps its first product.
dict_put_keeps_first(all, p) ==
    IF \E i \in 1..Len(all) : all[i].pid = p.pid
    THEN all
    ELSE Append(all, p)

\* all_products[p.pid] = p: a dict keeps the position of a key it holds.
dict_put(all, p) ==
    IF \E i \in 1..Len(all) : all[i].pid = p.pid
    THEN [i \in 1..Len(all) |-> IF all[i].pid = p.pid THEN p ELSE all[i]]
    ELSE Append(all, p)

RECURSIVE accumulate(_, _, _)
accumulate(all, prods, i) ==
    IF i > Len(prods) THEN all
    ELSE accumulate(dict_put(all, prods[i]), prods, i + 1)

(***************************************************************************)
(* Differ: diff_new_items.  seen_ids is the argument after the call.       *)
(***************************************************************************)
\* Faulty variant: the current ids are not added to the updated set.
diff_new_items_forgets(current, seen_ids) ==
    [new_products |-> SelectSeq(current, LAMBDA p : p.pid \notin seen_ids),
     updated_seen |-> seen_ids,
     seen_ids     |-> seen_ids]

\* Faulty variant: seen_ids |= current_ids, before the new products are
\* selected.
diff_new_items_in_place(current, seen_ids) ==
    LET current_ids == {current[i].pid : i \in 1..Len(current)}
    IN  [new_products |-> SelectSeq(current,
                              LAMBDA p : p.pid \notin seen_ids \cup current_ids),
         updated_seen |-> seen_ids \cup current_ids,
         seen_ids     |-> seen_ids \cup current_ids]

\* Faulty variant: the updated set is the current ids alone.
diff_new_items_current_only(current, seen_ids) ==
    LET current_ids == {current[i].pid : i \in 1..Len(current)}
    IN  [new_products |-> SelectSeq(current, LAMBDA p : p.pid \notin seen_ids),
         updated_seen |-> current_ids,
         seen_ids     |-> seen_ids]

diff_new_items(current, seen_ids) ==
    LET current_ids == {current[i].pid : i \in 1..Len(current)}
    IN  [new_products |-> SelectSeq(current, LAMBDA p : p.pid \notin seen_ids),
         updated_seen |-> seen_ids \cup current_ids,
         seen_ids     |-> seen_ids]

(***************************************************************************)
(* Notifier: build_email.                                                  *)
(***************************************************************************)
\* Faulty variant: an item without title or url is shown with empty fields.
build_email_no_defaults(new_items, brand_url) ==
    IF new_items = <<>>
    THEN [subject |-> <<"no new items", 0>>, html_items |-> <<>>,
          html_link |-> brand_url, text_lines |-> <<>>]
    ELSE [subject |-> <<"found", Len(new_items)>>,
          html_items |-> [i \in 1..Len(new_items) |->
                            [href  |-> new_items[i].url,
                             label |-> new_items[i].title,
                             id    |-> new_items[i].pid]],
          html_link |-> brand_url,
          text_lines |-> [i \in 1..Len(new_items) |->
                            [title |-> new_items[i].title,
                             url   |-> new_items[i].url]]]

\* What the message shows:
\*   subject     the fixed "no new items" subject, or the count it states
\*   html_items  per <li>: the href, the label and the ID shown
\*   html_link   the link to the brand page in the HTML body
\*   text_lines  per "- title — url" line: the title and the url shown
build_email(new_items, brand_url) ==
    IF new_items = <<>>
    THEN [subject |-> <<"no new items", 0>>, html_items |-> <<>>,
          html_link |-> brand_url, text_lines |-> <<>>]
    ELSE [subject |-> <<"found", Len(new_items)>>,
          html_items |-> [i \in 1..Len(new_items) |->
                            [href  |-> IF new_items[i].url # NoUrl
                                       THEN new_items[i].url ELSE brand_url,
                             label |-> IF new_items[i].title # ""
                                       THEN new_items[i].title
                                       ELSE new_items[i].pid,
                             id    |-> new_items[i].pid]],
          html_link |-> brand_url,
          text_lines |-> [i \in 1..Len(new_items) |->
                            [title |-> IF new_items[i].title # ""
                                       THEN new_items[i].title
                                       ELSE new_items[i].pid,
                             url   |-> IF new_items[i].url # NoUrl
                                       THEN new_items[i].url ELSE brand_url]]]

(***************************************************************************)
(* Configuration: env and the port.                                        *)
(***************************************************************************)
ConfigVars == {"SMTP_HOST", "SMTP_USERNAME", "SMTP_PASSWORD",
               "EMAIL_FROM", "EMAIL_TO"}

\* int(os.getenv("SMTP_PORT", "587")): "unset" takes the default, "" is
\* what an empty variable gives and int("") raises ValueError.
port_parses(raw) == raw \in {"unset", "587", "2525"}

\* env(name) prints a warning when the value is empty ...
env_warns(name, missing) == name \in missing

\* Faulty variant: a missing variable is an error.
env_raises_strict(name, missing) == name \in missing

\* ... and returns the value all the same: it never raises.
env_raises(name, missing) == FALSE

\* Faulty variant: the message is sent whatever the diff.
should_send_always(new_items) == TRUE

\* "if new_items:" before send_email.
should_send(new_items) == new_items # <<>>

\* Faulty variant: without new items the state is not saved.
step_after_compose_skip_save(new_items) ==
    IF should_send(new_items) THEN "send" ELSE "done"

\* Faulty variant: the state is saved without sending anything.
step_after_compose_skip_send(new_items) == "save"

\* Where main goes after build_email: to send_email, or straight to
\* save_state.
step_after_compose(new_items) ==
    IF should_send(new_items) THEN "send" ELSE "save"

\* An environment: the required variables that are unset or empty, and the
\* raw SMTP_PORT.
Envs ==
    {[missing |-> m, port |-> p] :
        m \in {{}, {"SMTP_HOST"}, {"SMTP_PASSWORD", "EMAIL_TO"}, ConfigVars},
        p \in {"unset", "2525", ""}}

(***************************************************************************)
(* The listings a server may serve: a map from URL to page.  A URL the     *)
(* map does not hold answers 404 on every attempt.                         *)
(***************************************************************************)
U1 == BRAND_URL
U2 == <<Base, "page2">>
U3 == <<Base, "page3">>

NoAttrs == <<"", "", "", "">>

\* <li data-productid=pid><a href=path title=title></a></li>
Card(pid, path, title) ==
    [attrs |-> <<pid, "", "", "">>, rx |-> NoAttrs, has_a |-> TRUE,
     href |-> <<"", path>>, a_title |-> title, a_text |-> "", title_el |-> ""]

Page(cards, body_ids, body_titles, link_next, a_next) ==
    [cards |-> cards, body_ids |-> body_ids, body_titles |-> body_titles,
     link_next |-> link_next, a_next |-> a_next]

\* One page, two cards, no next link.
SiteSingle ==
    U1 :> Page(<<Card("A", "a", "Shirt"), Card("B", "b", "")>>, {}, {},
               NoUrl, <<>>)

\* Two pages; A is listed on both with different url and title.
SiteTwoPages ==
    (U1 :> Page(<<Card("A", "a", "Shirt"), Card("B", "b", "Polo")>>, {}, {},
                <<"", "page2">>, <<>>))
    @@ (U2 :> Page(<<Card("A", "a2", "Shirt II"), Card("C", "c", "Coat")>>, {}, {},
                   NoUrl, <<NoUrl>>))

\* The page names itself as the next page.
SiteSelfLoop ==
    U1 :> Page(<<Card("B", "b", "Polo")>>, {}, {}, NoUrl, <<NoUrl, U1>>)

\* Two pages naming each other.
SiteCycle ==
    (U1 :> Page(<<Card("A", "a", "Shirt")>>, {}, {}, U2, <<>>))
    @@ (U2 :> Page(<<Card("C", "c", "Coat")>>, {}, {}, <<"", "gant">>, <<>>))

\* No card: identifiers only in the raw body.
SiteFallback ==
    U1 :> Page(<<>>, {" C", "B", " "}, {"B"}, NoUrl, <<>>)

\* Nothing recognisable.
SiteEmpty == U1 :> Page(<<>>, {}, {}, NoUrl, <<>>)

\* The second page is not served.
SiteBrokenNext ==
    U1 :> Page(<<Card("A", "a", "Shirt"), Card("C", "c", "Coat")>>, {}, {},
               NoUrl, <<U3>>)

Sites == {SiteSingle, SiteTwoPages, SiteSelfLoop, SiteCycle, SiteFallback,
          SiteEmpty, SiteBrokenNext}

\* The state files a first run may find.
InitFiles ==
    {File("absent", <<>>), File("unreadable", <<>>), File("notjson", <<>>),
     File("notobject", <<"A", "B">>), File("nofield", <<"A">>),
     File("scalar", <<>>), File("badlist", <<"A">>),
     File("list", <<>>), File("list", <<"A">>), File("list", <<"B", "A", "A">>),
     File("list", <<"A", "B", "C">>)}

(***************************************************************************)
(* State.                                                                  *)
(***************************************************************************)
VARIABLES
    pc,            \* where main() is: idle, crawl, compare, send, save, done, aborted
    runs,          \* runs of main() started
    site,          \* what the server serves during this run
    env,           \* the environment of this run
    file,          \* the state file
    next_url,      \* crawl_brand: next_url
    attempts,      \* fetch: attempts made for next_url
    all_products,  \* crawl_brand: all_products, in insertion order
    seen,          \* main: seen, after diff_new_items
    new_items,     \* main: new_items
    updated_seen,  \* main: updated_seen
    message,       \* main: what build_email returned
    exc,           \* the exception that left main(), "none" without one
    reads,         \* load_state calls of this run
    writes,        \* save_state calls of this run
    sends,         \* send_email calls of this run
    delivered,     \* the pids of the messages whose delivery completed, this run
    warned,        \* the variables env() warned about, this run
    file_at_start, \* the state file when this run started
    tries,         \* HTTP attempts the last fetch call made before it returned or raised
    fetched,       \* the URLs fetch returned a page for, this run, in order (the first MaxLog)
    prev_undelivered, \* the pids of the message whose delivery raised in the previous run
    notified,      \* the pids of all messages delivered so far, over all runs
    missed,        \* the notified pids a later completed crawl did not list
    recording,     \* whether the history over the runs (the three above) is kept
    d_pc, d_current, d_seen, d_first, d_second,  \* DiffSpec: the calls of diff_new_items
    d_message,     \* DiffSpec: build_email of the first call's new items
    x_pc, x_page, x_out   \* ExtractSpec: a page and what products_from_listing returns

main_vars == <<pc, runs, site, env, file, next_url, attempts, all_products,
               seen, new_items, updated_seen, message, exc, reads, writes,
               sends, delivered, warned, file_at_start, tries,
               fetched, prev_undelivered, notified, missed, recording>>

diff_vars == <<d_pc, d_current, d_seen, d_first, d_second, d_message>>

extract_vars == <<x_pc, x_page, x_out>>

vars == <<main_vars, diff_vars, extract_vars>>

\* The pids of a list of products.
Pids(products) == {products[i].pid : i \in 1..Len(products)}

NoMessage == build_email(<<>>, BRAND_URL)

NoResult == [new_products |-> <<>>, updated_seen |-> {}, seen_ids |-> {}]

\* Nothing of main() has run.
MainIdle(f) ==
    /\ pc = "idle" /\ runs = 0
    /\ site = SiteEmpty
    /\ env = [missing |-> {}, port |-> "unset"]
    /\ file = f /\ file_at_start = f
    /\ next_url = NoUrl /\ attempts = 0 /\ all_products = <<>>
    /\ seen = {} /\ new_items = <<>> /\ updated_seen = {}
    /\ message = NoMessage /\ exc = "none"
    /\ reads = 0 /\ writes = 0 /\ sends = 0 /\ delivered = {} /\ warned = {}
    /\ tries = 0
    /\ fetched = <<>> /\ prev_undelivered = {} /\ notified = {} /\ missed = {}

DiffIdle ==
    /\ d_pc = "off" /\ d_current = <<>> /\ d_seen = {}
    /\ d_first = NoResult /\ d_second = NoResult
    /\ d_message = NoMessage

ExtractIdle ==
    /\ x_pc = "off" /\ x_page = SiteEmpty[U1] /\ x_out = <<>>

Init ==
    /\ \E f \in InitFiles : MainIdle(f)
    /\ recording = TRUE
    /\ DiffIdle /\ ExtractIdle

\* The same start, the history over the runs not kept.
FairInit ==
    /\ \E f \in InitFiles : MainIdle(f)
    /\ recording = FALSE
    /\ DiffIdle /\ ExtractIdle

(***************************************************************************)
(* main(), step by step.                                                   *)
(***************************************************************************)
\* A run starts (the scheduler's trigger; load_dotenv; crawl_brand is
\* entered).  Runs do not overlap.
StartRun ==
    /\ pc \in {"idle", "done", "aborted"}
    /\ runs < MaxRuns
    /\ pc' = "crawl"
    /\ runs' = runs + 1
    /\ site' \in Sites
    /\ env' \in Envs
    /\ next_url' = BRAND_URL
    /\ attempts' = 0
    /\ tries' = 0
    /\ all_products' = <<>>
    /\ seen' = {} /\ new_items' = <<>> /\ updated_seen' = {}
    /\ message' = NoMessage
    /\ exc' = "none"
    /\ reads' = 0 /\ writes' = 0 /\ sends' = 0
    /\ delivered' = {} /\ warned' = {}
    /\ file_at_start' = file
    /\ fetched' = <<>>
    /\ prev_undelivered' = IF recording /\ exc = "SMTPException"
                           THEN Pids(new_items) ELSE {}
    /\ UNCHANGED <<file, notified, missed, recording, diff_vars, extract_vars>>

\* Faulty variant: the loop ends after any page, whatever next page it names.
FetchOk_one_page ==
    /\ pc = "crawl"
    /\ next_url \in DOMAIN site
    /\ LET page == site[next_url]
       IN  /\ \E order \in Orders(extract_product_ids(page)) :
                 all_products' =
                     accumulate(all_products,
                                products_from_listing(page, Base, order), 1)
           /\ next_url' = find_next_page(page, Base)
           /\ pc' = "compare"
    /\ tries' = attempts + 1
    /\ attempts' = 0
    /\ fetched' = IF Len(fetched) < MaxLog THEN Append(fetched, next_url)
                  ELSE fetched
    /\ UNCHANGED <<runs, site, env, file, seen, new_items, updated_seen,
                   message, exc, reads, writes, sends, delivered, warned,
                   file_at_start, prev_undelivered, notified, missed,
                   recording, diff_vars, extract_vars>>

\* One HTTP attempt of fetch(next_url) answers 2xx: fetch returns, the
\* page's products are accumulated and the next URL is computed.
FetchOk ==
    /\ pc = "crawl"
    /\ next_url \in DOMAIN site
    /\ LET page == site[next_url]
           nxt == find_next_page(page, Base)
       IN  /\ \E order \in Orders(extract_product_ids(page)) :
                 all_products' =
                     accumulate(all_products,
                                products_from_listing(page, Base, order), 1)
           /\ next_url' = nxt
           /\ pc' = IF nxt # NoUrl THEN "crawl" ELSE "compare"
    /\ tries' = attempts + 1
    /\ attempts' = 0
    /\ fetched' = IF Len(fetched) < MaxLog THEN Append(fetched, next_url)
                  ELSE fetched
    /\ UNCHANGED <<runs, site, env, file, seen, new_items, updated_seen,
                   message, exc, reads, writes, sends, delivered, warned,
                   file_at_start, prev_undelivered, notified, missed,
                   recording, diff_vars, extract_vars>>

\* Faulty variant: crawl_brand goes on with what it has when fetch gives up.
FetchFail_partial ==
    /\ pc = "crawl"
    /\ IF retry_stops(attempts + 1)
       THEN /\ pc' = "compare"
            /\ exc' = "RetryError"
            /\ tries' = attempts + 1
       ELSE UNCHANGED <<pc, exc, tries>>
    /\ attempts' = attempts + 1
    /\ UNCHANGED <<runs, site, env, file, next_url, all_products, seen,
                   new_items, updated_seen, message, reads, writes, sends,
                   delivered, warned, file_at_start, fetched,
                   prev_undelivered, notified, missed, recording, diff_vars, extract_vars>>

\* One HTTP attempt fails (network error, non-2xx): tenacity retries, or
\* raises RetryError out of fetch, crawl_brand and main.
FetchFail ==
    /\ pc = "crawl"
    /\ IF retry_stops(attempts + 1)
       THEN /\ pc' = "aborted"
            /\ exc' = "RetryError"
            /\ tries' = attempts + 1
       ELSE UNCHANGED <<pc, exc, tries>>
    /\ attempts' = attempts + 1
    /\ UNCHANGED <<runs, site, env, file, next_url, all_products, seen,
                   new_items, updated_seen, message, reads, writes, sends,
                   delivered, warned, file_at_start, fetched,
                   prev_undelivered, notified, missed, recording, diff_vars, extract_vars>>

\* Steps 2 and 3 of main up to the delivery: load_state, diff_new_items,
\* env("SMTP_HOST"), the port, the other four env() calls, build_email.
Compare ==
    /\ pc = "compare"
    /\ reads' = reads + 1
    /\ LET ld == load_state(file)
           d == diff_new_items(all_products, ld.val)
           e == IF env_raises("SMTP_HOST", env.missing) THEN "KeyError"
                ELSE IF ~port_parses(env.port) THEN "ValueError"
                ELSE IF \E n \in ConfigVars : env_raises(n, env.missing)
                     THEN "KeyError"
                ELSE "none"
           called == IF e = "none" THEN ConfigVars ELSE {"SMTP_HOST"}
       IN  IF ld.exc # "none"
           THEN /\ pc' = "aborted"
                /\ exc' = ld.exc
                /\ UNCHANGED <<seen, new_items, updated_seen, message, warned,
                               missed>>
           ELSE /\ seen' = d.seen_ids
                /\ missed' = missed \cup (notified \ Pids(all_products))
                /\ new_items' = d.new_products
                /\ updated_seen' = d.updated_seen
                /\ warned' = {n \in called : env_warns(n, env.missing)}
                /\ exc' = e
                /\ IF e = "none"
                   THEN /\ message' = build_email(d.new_products, BRAND_URL)
                        /\ pc' = step_after_compose(d.new_products)
                   ELSE /\ message' = message
                        /\ pc' = "aborted"
    /\ UNCHANGED <<runs, site, env, file, next_url, attempts, all_products,
                   writes, sends, delivered, file_at_start, tries, fetched,
                   prev_undelivered, notified, recording, diff_vars,
                   extract_vars>>

\* send_email is called and the transport delivers the message.
SendOk ==
    /\ pc = "send"
    /\ sends' = sends + 1
    /\ delivered' = {message.html_items[i].id : i \in 1..Len(message.html_items)}
    /\ notified' = IF recording THEN notified \cup delivered' ELSE notified
    /\ pc' = "save"
    /\ UNCHANGED <<runs, site, env, file, next_url, attempts, all_products,
                   seen, new_items, updated_seen, message, exc, reads, writes,
                   warned, file_at_start, tries, fetched, prev_undelivered,
                   missed, recording, diff_vars, extract_vars>>

\* send_email is called and raises (connection, TLS, login, recipients).
SendFail ==
    /\ pc = "send"
    /\ sends' = sends + 1
    /\ pc' = "aborted"
    /\ exc' = "SMTPException"
    /\ UNCHANGED <<runs, site, env, file, next_url, attempts, all_products,
                   seen, new_items, updated_seen, message, reads, writes,
                   delivered, warned, file_at_start, tries, fetched,
                   prev_undelivered, notified, missed, recording, diff_vars, extract_vars>>

\* Step 4 of main: save_state; then the summary line.
SaveState ==
    /\ pc = "save"
    /\ file' = save_state(updated_seen)
    /\ writes' = writes + 1
    /\ pc' = "done"
    /\ UNCHANGED <<runs, site, env, next_url, attempts, all_products, seen,
                   new_items, updated_seen, message, exc, reads, sends,
                   delivered, warned, file_at_start, tries, fetched,
                   prev_undelivered, notified, missed, recording, diff_vars, extract_vars>>

Next ==
    \/ StartRun
    \/ FetchOk
    \/ FetchFail
    \/ Compare
    \/ SendOk
    \/ SendFail
    \/ SaveState

Spec == Init /\ [][Next]_vars

\* A run that has started keeps running: the process is single-threaded,
\* every HTTP attempt ends (timeout) and every backoff sleep is bounded.
FairSpec ==
    /\ FairInit /\ [][Next]_vars
    /\ WF_vars(FetchOk \/ FetchFail)
    /\ WF_vars(Compare)
    /\ WF_vars(SendOk \/ SendFail)
    /\ WF_vars(SaveState)

(***************************************************************************)
(* diff_new_items on its own, on arguments drawn from bounded sets.        *)
(***************************************************************************)
DiffProducts ==
    {Product("A", <<Base, "a">>, "Shirt"), Product("A", <<Base, "a2">>, "Shirt II"),
     Product("B", NoUrl, ""), Product("C", <<Base, "c">>, "Coat")}

DiffIds == {"A", "B", "C"}

SeqsUpTo(S, n) == UNION {[1..k -> S] : k \in 0..n}

DiffInit ==
    /\ MainIdle(File("absent", <<>>)) /\ recording = FALSE
    /\ ExtractIdle
    /\ d_pc = "args"
    /\ d_current \in SeqsUpTo(DiffProducts, MaxLen)
    /\ d_seen \in SUBSET DiffIds
    /\ d_first = NoResult /\ d_second = NoResult
    /\ d_message = NoMessage

\* diff_new_items(current, seen)
DiffFirst ==
    /\ d_pc = "args"
    /\ d_first' = diff_new_items(d_current, d_seen)
    /\ d_pc' = "once"
    /\ UNCHANGED <<d_current, d_seen, d_second, d_message, main_vars,
                   extract_vars>>

\* diff_new_items(current, s1), s1 the updated set of the first call
DiffSecond ==
    /\ d_pc = "once"
    /\ d_second' = diff_new_items(d_current, d_first.updated_seen)
    /\ d_pc' = "twice"
    /\ UNCHANGED <<d_current, d_seen, d_first, d_message, main_vars,
                   extract_vars>>

\* build_email(new_items, BRAND_URL), new_items those of the first call
DiffCompose ==
    /\ d_pc = "twice"
    /\ d_message' = build_email(d_first.new_products, BRAND_URL)
    /\ d_pc' = "composed"
    /\ UNCHANGED <<d_current, d_seen, d_first, d_second, main_vars,
                   extract_vars>>

DiffNext ==
    \/ DiffFirst
    \/ DiffSecond
    \/ DiffCompose

DiffSpec == DiffInit /\ [][DiffNext]_vars

(***************************************************************************)
(* products_from_listing on its own, on pages drawn from bounded sets.     *)
(***************************************************************************)
\* The cards of the pages: what one selected element may look like.
CardPool ==
    {\* data-productid="A", anchor with title
     Card("A", "a", "Shirt"),
     \* the same identifier, another anchor
     Card("A", "a2", "Shirt II"),
     \* data-productid="A" and data-sku="B"
     [attrs |-> <<"A", "B", "", "">>, rx |-> <<"A", "", "", "">>, has_a |-> TRUE,
      href |-> <<"", "ab">>, a_title |-> "", a_text |-> "Polo", title_el |-> ""],
     \* data-id="B" only; "productID":"A" in the markup
     [attrs |-> <<"", "", "", "B">>, rx |-> <<"", "A", "", "">>, has_a |-> TRUE,
      href |-> <<"other", "b">>, a_title |-> "", a_text |-> "", title_el |-> "Belt"],
     \* no attribute; "productID":"C" and "sku":"B" in the markup; no anchor
     [attrs |-> NoAttrs, rx |-> <<"", "C", "", "B">>, has_a |-> FALSE,
      href |-> NoUrl, a_title |-> "", a_text |-> "", title_el |-> "Coat"],
     \* no identifier at all
     [attrs |-> NoAttrs, rx |-> NoAttrs, has_a |-> TRUE,
      href |-> <<"", "x">>, a_title |-> "Scarf", a_text |-> "", title_el |-> ""],
     \* data-productid=" "
     [attrs |-> <<" ", "", "", "">>, rx |-> <<" ", "", "", "">>, has_a |-> FALSE,
      href |-> NoUrl, a_title |-> "", a_text |-> "", title_el |-> ""]}

\* What the PID_PATTERNS and TITLE_PATTERNS match in the body outside the
\* cards.
BodyPool ==
    {[ids |-> {}, titles |-> {}],
     [ids |-> {"B"}, titles |-> {"B"}],
     [ids |-> {" C", "B", " "}, titles |-> {}]}

\* The matches of the PID_PATTERNS in a card's own markup: the whole body
\* holds them too.
CardMatches(cards) ==
    UNION {{cards[i].rx[k] : k \in 1..4} \ {""} : i \in 1..Len(cards)}

ExtractPages ==
    {Page(cards, b.ids \cup CardMatches(cards), b.titles, NoUrl, <<>>) :
        cards \in SeqsUpTo(CardPool, MaxCards), b \in BodyPool}

ExtractInit ==
    /\ MainIdle(File("absent", <<>>)) /\ recording = FALSE
    /\ DiffIdle
    /\ x_pc = "page"
    /\ x_page \in ExtractPages
    /\ x_out = <<>>

\* products_from_listing(soup, base)
Extract ==
    /\ x_pc = "page"
    /\ \E order \in Orders(extract_product_ids(x_page)) :
           x_out' = products_from_listing(x_page, Base, order)
    /\ x_pc' = "done"
    /\ UNCHANGED <<x_page, main_vars, diff_vars>>

ExtractNext == Extract

ExtractSpec == ExtractInit /\ [][ExtractNext]_vars

(***************************************************************************)
(* Properties.                                                             *)
(***************************************************************************)
\* The SeenSet a state file holds: what load_state makes of it.
SeenSetOf(f) == load_state(f).val

RunEnded == runs > 0 /\ pc \in {"done", "aborted"}

\* The crawl of this run returned to main.
CrawlCompleted ==
    \/ pc \in {"compare", "send", "save", "done"}
    \/ pc = "aborted" /\ exc # "RetryError"

\* The diff of this run found a product whose pid the loaded SeenSet lacks.
DiffFoundNew ==
    /\ reads = 1
    /\ \E i \in 1..Len(all_products) :
           all_products[i].pid \notin SeenSetOf(file_at_start)

UnionOfRun == SeenSetOf(file_at_start) \cup Pids(all_products)

\* C1: Monotonic state. No step of any run (completing, aborting on a fatal
\* fetch failure, on a configuration error or on a delivery failure) removes
\* an id from the SeenSet the state file holds: the set after a step is a
\* superset of the set before it.
C1_MonotonicState == [][SeenSetOf(file) \subseteq SeenSetOf(file')]_vars

\* A second or later run completed, the file held an id the listing no longer
\* shows, and the listing showed an id the file did not hold.
C1_Witness ==
    /\ pc = "done" /\ runs >= 2
    /\ ~(SeenSetOf(file_at_start) \subseteq Pids(all_products))
    /\ ~(Pids(all_products) \subseteq SeenSetOf(file_at_start))
    /\ SeenSetOf(file) = UnionOfRun

\* C2: All-or-nothing on fatal fetch failure. Once fetch has failed for the
\* last time on any page, the run is aborted with RetryError propagated out
\* of main, the state file is exactly what it was before the run, it was
\* neither read nor written, and send_email was not called.
C2_FatalFetchLeavesState ==
    attempts = MaxAttempts =>
        /\ pc = "aborted" /\ exc = "RetryError"
        /\ file = file_at_start
        /\ reads = 0 /\ writes = 0 /\ sends = 0 /\ delivered = {}

\* The fetch of a later page failed for good after an earlier page had
\* yielded products the SeenSet does not hold.
C2_Witness ==
    /\ exc = "RetryError" /\ pc = "aborted"
    /\ next_url # BRAND_URL
    /\ \E i \in 1..Len(all_products) :
           all_products[i].pid \notin SeenSetOf(file)

\* C3 as stated: in every run send_email is called at most once, and it is
\* called if and only if the diff produced a product whose pid was not in
\* the loaded SeenSet.
C3_Original ==
    /\ sends <= 1
    /\ RunEnded => (sends = 1 <=> DiffFoundNew)

\* C3: send_email is called at most once per run and only when the diff
\* produced a new product; in a run that ended it was called whenever the
\* diff produced a new product, unless the SMTP_PORT conversion raised
\* ValueError before the delivery step.
C3_SendOnlyIfNew ==
    /\ sends <= 1
    /\ sends = 1 => DiffFoundNew
    /\ (RunEnded /\ DiffFoundNew /\ exc # "ValueError") => sends = 1
    /\ (RunEnded /\ exc = "ValueError") => sends = 0

\* A run delivered a notification about some of the crawled products while
\* the others were already seen.
C3_Witness ==
    /\ pc = "done" /\ sends = 1
    /\ new_items # <<>>
    /\ Len(new_items) < Len(all_products)

\* C4 as stated (already on the runs whose SMTP_PORT parses): in every run
\* whose crawl completes the SeenSet is read once and written back once as
\* the union, whether or not a notification was attempted.
C4_Original ==
    (RunEnded /\ CrawlCompleted /\ port_parses(env.port)) =>
        /\ reads = 1 /\ writes = 1
        /\ SeenSetOf(file) = UnionOfRun

\* C4: in every run whose crawl completes the SeenSet is read exactly once;
\* a run that is not aborted by the SMTP_PORT conversion or by send_email
\* writes it back exactly once, as its last step, as the union of the loaded
\* SeenSet and the pids of the crawl, with or without new items; a run that
\* is aborted leaves the state file as it was.
C4_ReadOnceWriteOnce ==
    /\ reads <= 1 /\ writes <= 1
    /\ (CrawlCompleted /\ pc # "compare") => reads = 1
    /\ pc = "done" =>
          /\ writes = 1
          /\ file.kind = "list"
          /\ SeenSetOf(file) = UnionOfRun
    /\ pc # "done" => (writes = 0 /\ file = file_at_start)
    /\ pc = "aborted" => exc \in {"RetryError", "ValueError", "SMTPException"}

\* A run that found nothing new still rewrote the state file.
C4_Witness ==
    /\ pc = "done" /\ writes = 1 /\ reads = 1
    /\ new_items = <<>> /\ all_products # <<>>
    /\ sends = 0
    /\ file # file_at_start

\* C5 as stated: every crawl ends, whatever the server's next links.
C5_Original == (pc = "crawl") ~> (pc # "crawl")

\* The listings whose next links, followed from the start URL, reach a page
\* without a next link or a page that is not served.
ChainEndingSites == {SiteSingle, SiteTwoPages, SiteFallback, SiteEmpty,
                     SiteBrokenNext}

\* C5: crawl_brand ends (returns, or raises after a terminal fetch failure)
\* when the next links followed from the start URL reach a page without a
\* next link; it has no guard against self-referential or cyclic links.
C5_EndsWhenChainEnds ==
    (pc = "crawl" /\ site \in ChainEndingSites) ~> (pc # "crawl")

\* A crawl over two pages returned.
C5_Witness ==
    /\ pc = "compare" /\ site = SiteTwoPages
    /\ Len(all_products) = 3

\* C6: fetch makes at most 3 HTTP attempts for one URL. A call that returned
\* or raised took between 1 and 3 attempts; while the crawl is waiting to
\* make an attempt fewer than 3 have failed; RetryError is raised exactly
\* after the 3rd failed attempt, and then no further attempt is made.
C6_AtMostThreeAttempts ==
    /\ attempts \in 0..3 /\ tries \in 0..3
    /\ pc = "crawl" => attempts < 3
    /\ exc = "RetryError" => (attempts = 3 /\ tries = 3 /\ pc = "aborted")
    /\ attempts = 3 => (exc = "RetryError" /\ pc = "aborted")
    /\ (pc = "aborted" /\ exc = "RetryError") => ~ENABLED FetchOk

\* A fetch succeeded on its 3rd attempt.
C6_Witness ==
    /\ pc = "compare" /\ tries = 3 /\ attempts = 0
    /\ all_products # <<>>

NewPositions == {i \in 1..Len(d_current) : d_current[i].pid \notin d_seen}

\* The k-th smallest element of a set of numbers.
Kth(S, k) == CHOOSE i \in S : Cardinality({j \in S : j < i}) = k - 1

\* C8: diff_new_items(current, seen) returns as newItems the products of
\* current whose pid is not in seen, each position once and in the order of
\* current, and as updatedSeen the ids that are in seen or are the pid of a
\* product of current; seen itself is as it was.
C8_DiffResult ==
    d_pc # "args" =>
        /\ Len(d_first.new_products) = Cardinality(NewPositions)
        /\ \A k \in 1..Len(d_first.new_products) :
               d_first.new_products[k] = d_current[Kth(NewPositions, k)]
        /\ \A x \in DiffIds :
               x \in d_first.updated_seen <=>
                   (x \in d_seen \/ \E i \in 1..Len(d_current) : d_current[i].pid = x)
        /\ d_first.updated_seen \subseteq DiffIds
        /\ d_first.seen_ids = d_seen

\* seen = {A}, current = A, B, C: newItems = B, C and updatedSeen = {A, B, C}.
C8_Witness ==
    /\ d_pc = "once"
    /\ d_seen = {"A"}
    /\ Len(d_current) = 3 /\ Pids(d_current) = {"A", "B", "C"}
    /\ Pids(d_first.new_products) = {"B", "C"}
    /\ d_first.updated_seen = {"A", "B", "C"}

\* C9: Idempotent re-run. With s1 the updatedSeen of diff_new_items(current,
\* seen), diff_new_items(current, s1) returns no new item and s1.
C9_IdempotentRerun ==
    d_pc = "twice" =>
        /\ d_second.new_products = <<>>
        /\ d_second.updated_seen = d_first.updated_seen

\* The first call found new items, the second none.
C9_Witness ==
    /\ d_pc = "twice"
    /\ Len(d_first.new_products) >= 2
    /\ d_second.new_products = <<>>

(***************************************************************************)
(* load_state.                                                             *)
(***************************************************************************)
LoadErrors == {"OSError", "JSONDecodeError", "AttributeError", "TypeError"}

\* The identifiers listed under seen_ids, when the file is an object with
\* that field.
ListedIds(f) ==
    IF f.kind \in {"list", "badlist", "scalar"} THEN Range(f.ids) ELSE {}

\* C10 as stated: load_state never raises, returns the empty set for a file
\* that is absent, unreadable, not JSON, not an object or without seen_ids,
\* and otherwise the set of the identifiers listed under seen_ids.
C10_Original ==
    reads = 1 => (exc \notin LoadErrors /\ seen = ListedIds(file_at_start))

\* C10: load_state never raises; it returns the set of the strings listed
\* under seen_ids when seen_ids is an array of strings, and the empty set
\* for every other file of the model: absent, unreadable, not JSON, not an
\* object, without seen_ids, seen_ids null or a number, seen_ids an array
\* that holds an array or an object.
C10_LoadNeverRaises ==
    reads = 1 =>
        /\ exc \notin LoadErrors
        /\ file_at_start.kind = "list" => seen = Range(file_at_start.ids)
        /\ file_at_start.kind # "list" => seen = {}

\* A file whose seen_ids lists "A" and a nested array was loaded as empty.
C10_Witness ==
    /\ reads = 1 /\ exc = "none"
    /\ file_at_start.kind = "badlist" /\ file_at_start.ids # <<>>
    /\ seen = {}

(***************************************************************************)
(* crawl_brand.                                                            *)
(***************************************************************************)
\* The URLs the next links of site s lead through from url on, at most n:
\* the chain ends at a page without next link or at a URL that is not served.
RECURSIVE Chain(_, _, _)
Chain(s, url, n) ==
    IF n = 0 \/ url = NoUrl \/ url \notin DOMAIN s THEN <<>>
    ELSE <<url>> \o Chain(s, find_next_page(s[url], Base), n - 1)

\* C15: Crawl loop order and natural termination. The pages crawl_brand has
\* fetched are, in order, the start URL and then the URLs find_next_page
\* returned, each once per occurrence in that chain; the URL it fetches next
\* is the one find_next_page returned for the last page; and when the crawl
\* has returned, the last page fetched is the first page of the chain
\* without a next link: nothing is fetched beyond it.
C15_CrawlFollowsChain ==
    runs > 0 =>
        /\ Len(fetched) <= Len(Chain(site, BRAND_URL, MaxLog))
        /\ fetched = SubSeq(Chain(site, BRAND_URL, MaxLog), 1, Len(fetched))
        /\ (pc = "crawl" /\ Len(fetched) < MaxLog) =>
               next_url = IF fetched = <<>> THEN BRAND_URL
                          ELSE find_next_page(site[fetched[Len(fetched)]], Base)
        /\ (CrawlCompleted /\ Len(fetched) < MaxLog) =>
               /\ fetched # <<>>
               /\ fetched[1] = BRAND_URL
               /\ find_next_page(site[fetched[Len(fetched)]], Base) = NoUrl
               /\ \A i \in 1..(Len(fetched) - 1) :
                      find_next_page(site[fetched[i]], Base) = fetched[i + 1]

\* The crawl of the two-page site returned after the start page and page 2.
C15_Witness ==
    /\ pc = "compare"
    /\ site = SiteTwoPages
    /\ fetched = <<U1, U2>>

\* The products products_from_listing can return for a page (the fallback
\* path iterates a set, in any order).
PageProducts(page) ==
    UNION {Range(products_from_listing(page, Base, order)) :
               order \in Orders(extract_product_ids(page))}

PagePids(page) == {p.pid : p \in PageProducts(page)}

\* The last fetched page that lists pid.
LastPageOf(pid) ==
    CHOOSE i \in 1..Len(fetched) :
        /\ pid \in PagePids(site[fetched[i]])
        /\ \A j \in (i + 1)..Len(fetched) : pid \notin PagePids(site[fetched[j]])

\* C16: Crawl accumulation is keyed by pid, last seen wins. all_products
\* holds exactly one Product for each pid extracted from a fetched page and
\* no other pid, and the Product kept for a pid is the one of the last
\* fetched page that lists the pid.
C16_LastSeenWins ==
    (runs > 0 /\ Len(fetched) < MaxLog) =>
        /\ \A i, j \in 1..Len(all_products) :
               i # j => all_products[i].pid # all_products[j].pid
        /\ Pids(all_products) =
               UNION {PagePids(site[fetched[i]]) : i \in 1..Len(fetched)}
        /\ \A k \in 1..Len(all_products) :
               all_products[k] \in
                   PageProducts(site[fetched[LastPageOf(all_products[k].pid)]])

\* A is listed on both pages of the site; the crawl returned with the
\* Product of page 2 for it.
C16_Witness ==
    /\ CrawlCompleted
    /\ site = SiteTwoPages
    /\ fetched = <<U1, U2>>
    /\ "A" \in PagePids(site[U1]) /\ "A" \in PagePids(site[U2])
    /\ \E k \in 1..Len(all_products) :
           /\ all_products[k].pid = "A"
           /\ all_products[k].title = "Shirt II"
           /\ all_products[k] \notin PageProducts(site[U1])

(***************************************************************************)
(* Notification and state over the runs.                                   *)
(***************************************************************************)
\* The pids this run has added to the state file.
AddedByRun == SeenSetOf(file) \ SeenSetOf(file_at_start)

\* send_email comes before save_state: a run that saved after finding new
\* items delivered them first; what a run added to the file it delivered;
\* a delivery that raised left the file as it was.
SeenOnlyAfterNotified ==
    /\ writes = 1 =>
           \/ new_items = <<>> /\ sends = 0
           \/ sends = 1 /\ delivered = Pids(new_items)
    /\ AddedByRun \subseteq delivered
    /\ exc = "SMTPException" => (file = file_at_start /\ writes = 0)

\* C17, as stated: seen only after notified, and the pids of a message whose
\* delivery raised are reported as new again by the next run.
C17_Original ==
    runs > 0 =>
        /\ SeenOnlyAfterNotified
        /\ (runs >= 2 /\ RunEnded) => prev_undelivered \subseteq Pids(new_items)

\* C17: seen only after notified. Within a run send_email is attempted
\* before save_state, so every pid a run adds to the state file was listed
\* in a notification delivered without error in that run; if delivery raises
\* the state file is left unchanged, and each of those pids is reported as
\* new again by the next run whenever that run's crawl returns with the pid
\* still listed.
C17_SeenOnlyAfterNotified ==
    runs > 0 =>
        /\ SeenOnlyAfterNotified
        /\ (runs >= 2 /\ reads = 1) =>
               (prev_undelivered \cap Pids(all_products)) \subseteq Pids(new_items)

\* The delivery of the previous run raised; this run listed the same pids
\* as new, delivered them and then added them to the state file.
C17_Witness ==
    /\ pc = "done"
    /\ prev_undelivered # {}
    /\ prev_undelivered \subseteq delivered
    /\ prev_undelivered \subseteq AddedByRun

\* C18: No duplicate notification. Over the runs, with the state file
\* written by the runs alone, a message that is delivered lists no pid twice
\* and no pid an earlier delivered message listed, also when the product was
\* missing from a crawl in between.
C18_NoDuplicateNotification ==
    [][(pc = "send" /\ pc' = "save") =>
           /\ delivered' \cap notified = {}
           /\ \A i, j \in 1..Len(message.html_items) :
                  i # j => message.html_items[i].id # message.html_items[j].id]_vars

\* A pid was notified, then missing from a completed crawl, then listed
\* again by this run, which completed without notifying it.
C18_Witness ==
    /\ pc = "done"
    /\ \E p \in notified \cap missed :
           /\ p \in Pids(all_products)
           /\ p \notin delivered
           /\ p \notin Pids(new_items)

(***************************************************************************)
(* products_from_listing (ExtractSpec).                                    *)
(***************************************************************************)
\* The first card of the page that resolves to the pid of card k.
FirstCardOf(k) ==
    CHOOSE f \in 1..k :
        /\ card_pid(x_page.cards[f]) = card_pid(x_page.cards[k])
        /\ \A g \in 1..(f - 1) :
               card_pid(x_page.cards[g]) # card_pid(x_page.cards[k])

\* C11: Dedup by identifier within a page. products_from_listing returns at
\* most one Product per pid, and for every card that resolves to a pid the
\* Product of that pid carries the url and title of the first card, in
\* document order, that resolves to it.
C11_DedupFirstWins ==
    x_pc = "done" =>
        /\ \A i, j \in 1..Len(x_out) : i # j => x_out[i].pid # x_out[j].pid
        /\ \A k \in 1..Len(x_page.cards) :
               card_pid(x_page.cards[k]) # "" =>
                   \E i \in 1..Len(x_out) :
                       x_out[i] = Product(card_pid(x_page.cards[k]),
                                          card_href(x_page.cards[FirstCardOf(k)], Base),
                                          card_title(x_page.cards[FirstCardOf(k)]))

\* Two cards share the pid A with different urls and titles; one Product
\* comes back, with the first card's.
C11_Witness ==
    /\ x_pc = "done"
    /\ Len(x_page.cards) = 2
    /\ card_pid(x_page.cards[1]) = "A" /\ card_pid(x_page.cards[2]) = "A"
    /\ card_title(x_page.cards[1]) # card_title(x_page.cards[2])
    /\ Len(x_out) = 1
    /\ x_out[1].title = card_title(x_page.cards[1])

\* The identifiers the patterns match in the raw body, stripped, the empty
\* ones left out.
BodyIdentifiers == {Strip(i) : i \in x_page.body_ids} \ {""}

\* C12: the global regex fallback is used exactly when the page has no card
\* element. Without a card the result is one Product with empty url for
\* every non-empty identifier matched in the raw body; with at least one
\* card every Product of the result comes from a card.
C12_FallbackOnlyWithoutCards ==
    x_pc = "done" =>
        /\ x_page.cards = <<>> =>
              /\ Pids(x_out) = BodyIdentifiers
              /\ Len(x_out) = Cardinality(BodyIdentifiers)
              /\ \A i \in 1..Len(x_out) : x_out[i].url = NoUrl
        /\ x_page.cards # <<>> =>
              \A i \in 1..Len(x_out) :
                  \E k \in 1..Len(x_page.cards) :
                      /\ x_out[i].pid = card_pid(x_page.cards[k])
                      /\ x_out[i].url = card_href(x_page.cards[k], Base)

\* The value of the earliest of data-productid, data-sku, data-itemid,
\* data-id the card carries, "" when it carries none.
EarliestAttr(card) ==
    IF card.attrs[1] # "" THEN card.attrs[1]
    ELSE IF card.attrs[2] # "" THEN card.attrs[2]
    ELSE IF card.attrs[3] # "" THEN card.attrs[3]
    ELSE card.attrs[4]

\* C13: identifier attributes are checked in priority order, first match
\* wins: a card carrying some of the four attributes yields a Product whose
\* pid is the value of the earliest one it carries, and the regex over the
\* card's markup decides the pid only of a card that carries none.
C13_AttributePriority ==
    x_pc = "done" =>
        \A k \in 1..Len(x_page.cards) :
            LET card == x_page.cards[k]
            IN  /\ EarliestAttr(card) # "" =>
                       \E i \in 1..Len(x_out) : x_out[i].pid = EarliestAttr(card)
                /\ (EarliestAttr(card) = "" /\ card_regex_pid(card) # "") =>
                       \E i \in 1..Len(x_out) : x_out[i].pid = card_regex_pid(card)

\* C14: every Product products_from_listing returns has a pid that is
\* neither empty nor whitespace only, on the card path and on the fallback
\* path.
C14_NoBlankPid ==
    x_pc = "done" =>
        \A i \in 1..Len(x_out) : Strip(x_out[i].pid) # ""

(***************************************************************************)
(* build_email (DiffSpec).                                                 *)
(***************************************************************************)
\* C19: build_email with empty newItems returns the fixed "no new items"
\* subject and an HTML body that links to brandURL; with non-empty newItems
\* the subject states len(newItems), and the HTML body and the text body
\* each hold one entry per item, in the order of newItems, showing the
\* item's title (its pid when the title is empty) and its url (brandURL
\* when the url is empty).
C19_EmailShowsItems ==
    d_pc = "composed" =>
        LET n == d_first.new_products
            m == d_message
        IN  IF n = <<>>
            THEN /\ m.subject = <<"no new items", 0>>
                 /\ m.html_link = BRAND_URL
                 /\ m.html_items = <<>> /\ m.text_lines = <<>>
            ELSE /\ m.subject = <<"found", Len(n)>>
                 /\ Len(m.html_items) = Len(n)
                 /\ Len(m.text_lines) = Len(n)
                 /\ \A i \in 1..Len(n) :
                        /\ n[i].title # "" =>
                              (m.html_items[i].label = n[i].title
                               /\ m.text_lines[i].title = n[i].title)
                        /\ n[i].title = "" =>
                              (m.html_items[i].label = n[i].pid
                               /\ m.text_lines[i].title = n[i].pid)
                        /\ n[i].url # NoUrl =>
                              (m.html_items[i].href = n[i].url
                               /\ m.text_lines[i].url = n[i].url)
                        /\ n[i].url = NoUrl =>
                              (m.html_items[i].href = BRAND_URL
                               /\ m.text_lines[i].url = BRAND_URL)

\* Two new items, the second without title and url: it is shown with its
\* pid and the brand URL.
C19_Witness ==
    /\ d_pc = "composed"
    /\ Len(d_first.new_products) = 2
    /\ d_first.new_products[1].title # ""
    /\ d_first.new_products[2].title = "" /\ d_first.new_products[2].url = NoUrl
    /\ d_message.subject = <<"found", 2>>
    /\ d_message.text_lines[2] = [title |-> d_first.new_products[2].pid,
                                  url |-> BRAND_URL]

====
